---- MODULE Spec2Model ----
(***************************************************************************)
(* Model of aws_lambda_builders/workflows/nodejs_npm/actions.py: the three *)
(* build actions NodejsNpmPackAction, NodejsNpmInstallAction and           *)
(* NodejsNpmScriptAction, together with the collaborators they call (the   *)
(* npm process wrapper, the OS utilities and json.loads).                  *)
(*                                                                         *)
(* A Python str is a sequence of tokens (each token a TLA+ string standing *)
(* for a run of characters), so concatenation, formatting and path         *)
(* arithmetic are computed, not assumed.  A manifest text is a sequence of *)
(* JSON lexemes <<kind, text>>.  An exception is a record [type, msg]; the *)
(* normal return of a call is the record of type "None" whose msg is the   *)
(* returned text.                                                          *)
(***************************************************************************)
EXTENDS Integers, Sequences, FiniteSets, TLC

VARIABLES pack, install, script, fs, runs, last, prev

vars == <<pack, install, script, fs, runs, last, prev>>

(***************************************************************************)
(* Bounds of the model.                                                    *)
(***************************************************************************)
MaxRuns == 2       \* number of execute() calls in one behaviour
MaxMsgLen == 1     \* length, in tokens, of an executor diagnostic

(***************************************************************************)
(* Strings                                                                 *)
(***************************************************************************)
Max(S) == CHOOSE x \in S : \A y \in S : y <= x

SeqsUpTo(A, n) == UNION {[1..k -> A] : k \in 0..n}

\* s.rfind(c) + 1: the 1-based position of the last c, 0 when there is none
RFind(s, c) ==
    LET I == {i \in 1..Len(s) : s[i] = c}
    IN  IF I = {} THEN 0 ELSE Max(I)

RECURSIVE RStrip(_, _)
RStrip(s, c) ==
    IF s # <<>> /\ s[Len(s)] = c THEN RStrip(SubSeq(s, 1, Len(s) - 1), c) ELSE s

\* sub in s
Contains(s, sub) ==
    \E i \in 0..(Len(s) - Len(sub)) : SubSeq(s, i + 1, i + Len(sub)) = sub

RECURSIVE Split(_, _)
Split(s, c) ==
    LET I == {i \in 1..Len(s) : s[i] = c}
    IN  IF I = {} THEN <<s>>
        ELSE LET i == CHOOSE j \in I : \A k \in I : j <= k
             IN  <<SubSeq(s, 1, i - 1)>> \o Split(SubSeq(s, i + 1, Len(s)), c)

RECURSIVE Join(_, _)
Join(parts, c) ==
    IF parts = <<>> THEN <<>>
    ELSE IF Len(parts) = 1 THEN parts[1]
    ELSE parts[1] \o <<c>> \o Join(Tail(parts), c)

(***************************************************************************)
(* osutils: path arithmetic (posixpath)                                    *)
(***************************************************************************)
Cwd == <<"/", "home">>     \* the working directory of the build process

isabs(p) == p # <<>> /\ p[1] = "/"

dirname(p) ==
    LET i == RFind(p, "/")
        head == SubSeq(p, 1, i)
    IN  IF head # <<>> /\ (\E k \in 1..Len(head) : head[k] # "/")
        THEN RStrip(head, "/") ELSE head

joinpath(a, b) ==
    IF isabs(b) THEN b
    ELSE IF a = <<>> \/ a[Len(a)] = "/" THEN a \o b
    ELSE a \o <<"/">> \o b

RECURSIVE NormComps(_, _, _)
NormComps(comps, new, rooted) ==
    IF comps = <<>> THEN new
    ELSE LET c == Head(comps)
             rest == Tail(comps)
         IN  IF c = <<>> \/ c = <<".">> THEN NormComps(rest, new, rooted)
             ELSE IF c # <<"..">> \/ (~rooted /\ new = <<>>)
                     \/ (new # <<>> /\ new[Len(new)] = <<"..">>)
                  THEN NormComps(rest, Append(new, c), rooted)
             ELSE IF new # <<>>
                  THEN NormComps(rest, SubSeq(new, 1, Len(new) - 1), rooted)
             ELSE NormComps(rest, new, rooted)

normpath(p) ==
    IF p = <<>> THEN <<".">>
    ELSE LET rooted == isabs(p)
             body == Join(NormComps(Split(p, "/"), <<>>, rooted), "/")
             path == IF rooted THEN <<"/">> \o body ELSE body
         IN  IF path = <<>> THEN <<".">> ELSE path

abspath(p) == normpath(IF isabs(p) THEN p ELSE joinpath(Cwd, p))

(***************************************************************************)
(* json.loads, over lexemes.  A lexeme is <<kind, text>>: "p" punctuation, *)
(* "s" a string literal (text is its value), "n" a number, "l" null.       *)
(* A parsed value is a record tagged by t: "null", "num", "str", "list"    *)
(* (items) or "dict" (members, a sequence of [key, val]).                  *)
(***************************************************************************)
P(c) == <<"p", <<c>>>>
Str(v) == <<"s", v>>

JFail(d) == [ok |-> FALSE, diag |-> d]
JOk(v, r) == [ok |-> TRUE, val |-> v, rest |-> r]

RECURSIVE ParseValue(_), ParseItems(_, _), ParseMembers(_, _)

ParseValue(ts) ==
    IF ts = <<>> THEN JFail(<<"Expecting value">>)
    ELSE LET h == Head(ts)
             r == Tail(ts)
         IN  CASE h[1] = "l" -> JOk([t |-> "null"], r)
               [] h[1] = "n" -> JOk([t |-> "num", n |-> h[2]], r)
               [] h[1] = "s" -> JOk([t |-> "str", s |-> h[2]], r)
               [] h = P("[") ->
                    IF r # <<>> /\ Head(r) = P("]")
                    THEN JOk([t |-> "list", items |-> <<>>], Tail(r))
                    ELSE ParseItems(r, <<>>)
               [] h = P("{") ->
                    IF r # <<>> /\ Head(r) = P("}")
                    THEN JOk([t |-> "dict", members |-> <<>>], Tail(r))
                    ELSE ParseMembers(r, <<>>)
               [] OTHER -> JFail(<<"Expecting value">>)

ParseItems(ts, acc) ==
    LET v == ParseValue(ts)
    IN  IF ~v.ok THEN v
        ELSE LET items == Append(acc, v.val)
             IN  IF v.rest # <<>> /\ Head(v.rest) = P("]")
                 THEN JOk([t |-> "list", items |-> items], Tail(v.rest))
                 ELSE IF v.rest # <<>> /\ Head(v.rest) = P(",")
                 THEN ParseItems(Tail(v.rest), items)
                 ELSE JFail(<<"Expecting ',' delimiter">>)

ParseMembers(ts, acc) ==
    IF ts = <<>> \/ Head(ts)[1] # "s"
    THEN JFail(<<"Expecting property name enclosed in double quotes">>)
    ELSE IF Tail(ts) = <<>> \/ Head(Tail(ts)) # P(":")
    THEN JFail(<<"Expecting ':' delimiter">>)
    ELSE LET v == ParseValue(Tail(Tail(ts)))
         IN  IF ~v.ok THEN v
             ELSE LET members == Append(acc, [key |-> Head(ts)[2], val |-> v.val])
                  IN  IF v.rest # <<>> /\ Head(v.rest) = P("}")
                      THEN JOk([t |-> "dict", members |-> members], Tail(v.rest))
                      ELSE IF v.rest # <<>> /\ Head(v.rest) = P(",")
                      THEN ParseMembers(Tail(v.rest), members)
                      ELSE JFail(<<"Expecting ',' delimiter">>)

\* json.loads(text): the parsed value, or the ValueError it raises
json_loads(text) ==
    LET v == ParseValue(text)
    IN  IF ~v.ok THEN [type |-> "ValueError", msg |-> v.diag]
        ELSE IF v.rest # <<>> THEN [type |-> "ValueError", msg |-> <<"Extra data">>]
        ELSE [type |-> "None", val |-> v.val]

\* d.keys() of a parsed value: the key set, or the AttributeError of a non-dict
keys(v) ==
    IF v.t = "dict"
    THEN [type |-> "None", val |-> {v.members[i].key : i \in 1..Len(v.members)}]
    ELSE [type |-> "AttributeError", msg |-> <<v.t, " object has no attribute 'keys'">>]

\* d[k] of a dict holding k: a repeated key keeps its last value
getitem(v, k) ==
    v.members[Max({i \in 1..Len(v.members) : v.members[i].key = k})].val

(***************************************************************************)
(* Exceptions and call results                                             *)
(***************************************************************************)
Returned(text) == [type |-> "None", msg |-> text]
Raised(type, msg) == [type |-> type, msg |-> msg]

\* str(ex)
str(ex) == ex.msg

ActionFailedError(message) == [type |-> "ActionFailedError", msg |-> message]

\* isinstance(ex, ValueError): json's decode error and the codec's
\* UnicodeDecodeError are ValueErrors
IsValueError(ex) == ex.type \in {"ValueError", "UnicodeDecodeError"}

Event(op, args, dir, result, wrote) ==
    [op |-> op, args |-> args, dir |-> dir,
     result |-> [type |-> result.type, msg |-> result.msg], wrote |-> wrote]

(***************************************************************************)
(* The collaborators.  disk maps a directory to the set of entry names in  *)
(* it.  env is what the outside world answers during one execute():        *)
(*   env.npm    the result of the npm process (output text or failure)     *)
(*   env.files  the members of the archive `npm pack` writes               *)
(*   env.ext    the result of unpacking (done: the members written)        *)
(*   env.read   the result of reading the manifest (text or failure)       *)
(***************************************************************************)
AddEntries(disk, dir, names) ==
    IF dir \in DOMAIN disk THEN [disk EXCEPT ![dir] = @ \cup names] ELSE disk

\* SubprocessNpm.run(args, cwd): `pack` writes the archive it names into cwd,
\* `install` adds node_modules to cwd; a failed process writes nothing
subprocess_npm_run(disk, args, cwd, env) ==
    LET wrote == IF env.npm.type # "None" THEN {}
                 ELSE IF args[1] = <<"pack">> THEN {env.npm.msg}
                 ELSE IF args[1] = <<"install">> THEN {<<"node_modules">>}
                 ELSE {}
    IN  [result |-> env.npm,
         fs     |-> AddEntries(disk, cwd, wrote),
         event  |-> Event("run", args, cwd, env.npm, wrote)]

\* OSUtils.extract_tarfile(tarfile_path, unpack_dir)
extract_tarfile(disk, tarfile_path, unpack_dir, env) ==
    LET present == \E d \in DOMAIN disk : \E n \in disk[d] : joinpath(d, n) = tarfile_path
        result == IF present THEN env.ext
                  ELSE [type |-> "IOError", msg |-> <<"No such file">>, done |-> {}]
    IN  [result |-> result,
         fs     |-> AddEntries(disk, unpack_dir, result.done),
         event  |-> Event("extract_tarfile", <<tarfile_path>>, unpack_dir, result, result.done)]

\* OSUtils.get_text_contents(filename)
get_text_contents(filename, env) ==
    [result |-> env.read,
     event  |-> Event("get_text_contents", <<filename>>, <<>>,
                      IF env.read.type = "None" THEN Returned(<<>>) ELSE env.read, {})]

(***************************************************************************)
(* NodejsNpmPackAction                                                     *)
(***************************************************************************)
\* variant: the handler decorates the executor's message
NodejsNpmPackAction_except_prefixed(ex) ==
    IF ex.type = "NpmExecutionError"
    THEN ActionFailedError(<<"NPM packaging failed: ">> \o str(ex)) ELSE ex

\* except NpmExecutionError as ex: raise ActionFailedError(str(ex))
NodejsNpmPackAction_except(ex) ==
    IF ex.type = "NpmExecutionError" THEN ActionFailedError(str(ex)) ELSE ex

\* variant: the manifest's directory is not made absolute
package_path_relative(self) == <<"file:">> \o dirname(self.manifest_path)

\* package_path = "file:{}".format(abspath(dirname(manifest_path)))
package_path(self) == <<"file:">> \o abspath(dirname(self.manifest_path))

\* variant: the archive is removed from the scratch directory once unpacked
NodejsNpmPackAction_execute_cleanup(self, disk, env) ==
    LET packed == subprocess_npm_run(disk,
                      <<<<"pack">>, <<"-q">>,
                        <<"file:">> \o abspath(dirname(self.manifest_path))>>,
                      self.scratch_dir, env)
    IN  IF packed.result.type # "None"
        THEN [self |-> self, fs |-> packed.fs, events |-> <<packed.event>>,
              outcome |-> IF packed.result.type = "NpmExecutionError"
                          THEN ActionFailedError(str(packed.result))
                          ELSE packed.result]
        ELSE LET tarfile_name == packed.result.msg
                 tarfile_path == joinpath(self.scratch_dir, tarfile_name)
                 extracted == extract_tarfile(packed.fs, tarfile_path, self.artifacts_dir, env)
             IN  [self |-> self,
                  fs |-> [extracted.fs EXCEPT ![self.scratch_dir] = @ \ {tarfile_name}],
                  events |-> <<packed.event, extracted.event>>,
                  outcome |-> IF extracted.result.type # "None"
                              THEN Raised(extracted.result.type, extracted.result.msg)
                              ELSE Returned(<<>>)]

NodejsNpmPackAction_execute(self, disk, env) ==
    LET packed == subprocess_npm_run(disk, <<<<"pack">>, <<"-q">>, package_path(self)>>,
                                     self.scratch_dir, env)
    IN  IF packed.result.type # "None"
        THEN [self |-> self, fs |-> packed.fs, events |-> <<packed.event>>,
              outcome |-> NodejsNpmPackAction_except(packed.result)]
        ELSE LET tarfile_name == packed.result.msg
                 tarfile_path == joinpath(self.scratch_dir, tarfile_name)
                 extracted == extract_tarfile(packed.fs, tarfile_path, self.artifacts_dir, env)
             IN  [self |-> self, fs |-> extracted.fs,
                  events |-> <<packed.event, extracted.event>>,
                  outcome |-> IF extracted.result.type # "None"
                              THEN NodejsNpmPackAction_except(
                                       Raised(extracted.result.type, extracted.result.msg))
                              ELSE Returned(<<>>)]

(***************************************************************************)
(* NodejsNpmInstallAction                                                  *)
(***************************************************************************)
NodejsNpmInstallAction_except(ex) ==
    IF ex.type = "NpmExecutionError" THEN ActionFailedError(str(ex)) ELSE ex

install_args ==
    <<<<"install">>, <<"-q">>, <<"--no-audit">>, <<"--no-save">>, <<"--production">>>>

\* variant: a failed install is tried a second time
NodejsNpmInstallAction_execute_retry(self, disk, env) ==
    LET first == subprocess_npm_run(disk, install_args, self.artifacts_dir, env)
        second == subprocess_npm_run(first.fs, install_args, self.artifacts_dir, env)
    IN  IF first.result.type = "None"
        THEN [self |-> self, fs |-> first.fs, events |-> <<first.event>>,
              outcome |-> Returned(<<>>)]
        ELSE [self |-> self, fs |-> second.fs, events |-> <<first.event, second.event>>,
              outcome |-> IF second.result.type = "NpmExecutionError"
                          THEN ActionFailedError(str(second.result))
                          ELSE second.result]

\* variant: the action remembers where it installed and descends into it
NodejsNpmInstallAction_execute_stateful(self, disk, env) ==
    LET installed == subprocess_npm_run(disk, install_args, self.artifacts_dir, env)
    IN  [self |-> IF installed.result.type = "None"
                  THEN [self EXCEPT !.artifacts_dir = joinpath(@, <<"node_modules">>)]
                  ELSE self,
         fs |-> installed.fs, events |-> <<installed.event>>,
         outcome |-> IF installed.result.type = "NpmExecutionError"
                     THEN ActionFailedError(str(installed.result))
                     ELSE IF installed.result.type # "None" THEN installed.result
                     ELSE Returned(<<>>)]

NodejsNpmInstallAction_execute(self, disk, env) ==
    LET installed == subprocess_npm_run(disk, install_args, self.artifacts_dir, env)
    IN  [self |-> self, fs |-> installed.fs, events |-> <<installed.event>>,
         outcome |-> IF installed.result.type # "None"
                     THEN NodejsNpmInstallAction_except(installed.result)
                     ELSE Returned(<<>>)]

(***************************************************************************)
(* NodejsNpmScriptAction                                                   *)
(***************************************************************************)
\* variant: the message leaves the manifest path out
not_valid_json_nopath(manifest_path, ex) == <<"manifest is not valid json: ">> \o str(ex)

\* "{} is not valid json: {}".format(manifest_path, str(ex))
not_valid_json(manifest_path, ex) == manifest_path \o <<" is not valid json: ">> \o str(ex)

NodejsNpmScriptAction_except(self, ex) ==
    IF ex.type = "NpmExecutionError" THEN ActionFailedError(str(ex))
    ELSE IF IsValueError(ex) THEN ActionFailedError(not_valid_json(self.manifest_path, ex))
    ELSE ex

\* variant: only the presence of "scripts" is tested
has_script_any(parsed_json, script_name) ==
    LET top == keys(parsed_json)
    IN  IF top.type # "None" THEN top
        ELSE [type |-> "None", val |-> <<"scripts">> \in top.val]

\* "scripts" in parsed_json.keys() and script_name in parsed_json["scripts"].keys()
has_script(parsed_json, script_name) ==
    LET top == keys(parsed_json)
    IN  IF top.type # "None" THEN top
        ELSE IF <<"scripts">> \notin top.val THEN [type |-> "None", val |-> FALSE]
        ELSE LET inner == keys(getitem(parsed_json, <<"scripts">>))
             IN  IF inner.type # "None" THEN inner
                 ELSE [type |-> "None", val |-> script_name \in inner.val]

\* variant: the script name is not passed on
script_args_bare(self) == <<<<"run">>>>

script_args(self) == <<<<"run">>, self.script_name>>

NodejsNpmScriptAction_execute(self, disk, env) ==
    LET read == get_text_contents(self.manifest_path, env)
        Out(events, outcome) ==
            [self |-> self, fs |-> disk, events |-> events, outcome |-> outcome]
    IN  IF read.result.type # "None"
        THEN Out(<<read.event>>, NodejsNpmScriptAction_except(self, read.result))
        ELSE LET parsed_json == json_loads(read.result.msg)
             IN  IF parsed_json.type # "None"
                 THEN Out(<<read.event>>, NodejsNpmScriptAction_except(self, parsed_json))
                 ELSE LET found == has_script(parsed_json.val, self.script_name)
                      IN  IF found.type # "None"
                          THEN Out(<<read.event>>, NodejsNpmScriptAction_except(self, found))
                          ELSE IF ~found.val THEN Out(<<read.event>>, Returned(<<>>))
                          ELSE LET ran == subprocess_npm_run(disk, script_args(self),
                                                             self.working_dir, env)
                               IN  Out(<<read.event, ran.event>>,
                                       IF ran.result.type # "None"
                                       THEN NodejsNpmScriptAction_except(self, ran.result)
                                       ELSE Returned(<<>>))

(***************************************************************************)
(* The build parameters and the answers of the outside world               *)
(***************************************************************************)
ArtifactsDir == <<"/", "out">>
ScratchDir == <<"/", "tmp">>
Dirs == {ArtifactsDir, ScratchDir}

ManifestPaths ==
    { <<"/", "proj", "/", "package.json">>,
      <<"proj", "/", "package.json">>,
      <<"package.json">>,
      <<"..", "/", "package.json">> }

ScriptNames == { <<"build">>, <<>> }

PriorFiles == { <<"old.js">> }
ArchiveFiles == { <<"package/index.js">> }
ArchiveNames == { <<"app-1.0.0.tgz">>, <<"lib-2.0.0.tgz">> }
Outputs == { <<>>, <<"done">> }

MsgAlphabet == {"npm ERR!"}
NpmFailures == {Raised("NpmExecutionError", m) : m \in SeqsUpTo(MsgAlphabet, MaxMsgLen)}

ExtractOutcomes(files) ==
    {[type |-> "None", msg |-> <<>>, done |-> files]}
    \cup {[type |-> "IOError", msg |-> <<"No space left on device">>, done |-> d] :
            d \in SUBSET files}

ReadFailures ==
    { Raised("IOError", <<"No such file or directory">>),
      Raised("UnicodeDecodeError", <<"'utf-8' codec can't decode byte">>) }

K(name) == Str(<<name>>)
Build == <<P("{"), K("build"), P(":"), K("tsc"), P("}")>>

Manifests ==
    { <<>>,
      <<P("{")>>,
      <<P("{"), K("scripts")>>,
      <<P("{"), K("scripts"), P(":")>> \o Build \o <<P("}"), P("}")>>,
      <<P("{"), K("scripts"), P(":")>> \o Build \o <<P("}")>>,
      <<P("{"), K("scripts"), P(":"),
            P("{"), K("test"), P(":"), K("jest"), P("}"), P("}")>>,
      <<P("{"), K("scripts"), P(":"),
            P("{"), K("build"), P(":"), K("tsc"), P(","),
                    Str(<<>>), P(":"), K("true"), P("}"), P("}")>>,
      <<P("{"), K("scripts"), P(":")>> \o Build
            \o <<P(","), K("scripts"), P(":"), P("{"), P("}"), P("}")>>,
      <<P("{"), K("name"), P(":"), K("app"), P("}")>>,
      <<P("{"), K("scripts"), P(":"), K("tsc"), P("}")>>,
      <<P("["), K("scripts"), P(","), <<"n", <<"1">>>>, P("]")>>,
      <<<<"l", <<"null">>>>>>,
      <<<<"n", <<"1">>>>>> }

NoEnv ==
    [npm |-> Returned(<<>>), files |-> {},
     ext |-> [type |-> "None", msg |-> <<>>, done |-> {}], read |-> Returned(<<>>)]

PackEnvs ==
    {[NoEnv EXCEPT !.npm = f] : f \in NpmFailures}
    \cup UNION { UNION { {[NoEnv EXCEPT !.npm = Returned(n), !.files = files, !.ext = x] :
                             x \in ExtractOutcomes(files)} :
                         files \in SUBSET ArchiveFiles } :
                 n \in ArchiveNames }

InstallEnvs ==
    {[NoEnv EXCEPT !.npm = r] : r \in NpmFailures \cup {Returned(o) : o \in Outputs}}

ScriptEnvs ==
    {[NoEnv EXCEPT !.read = r] : r \in ReadFailures}
    \cup UNION { {[NoEnv EXCEPT !.read = Returned(text), !.npm = r] :
                     r \in NpmFailures \cup {Returned(o) : o \in Outputs}} :
                 text \in Manifests }

(***************************************************************************)
(* State.  pack, install and script are the three action objects (their    *)
(* attributes as bound by __init__); fs is the disk; last and prev record  *)
(* the two most recent execute() calls: the action, the collaborator calls *)
(* it made in order, how it ended, the disk before it, the manifest text   *)
(* it read and the members of the archive npm wrote.                       *)
(***************************************************************************)
Run(action, r, before, text, files) ==
    [action |-> action, events |-> r.events, outcome |-> r.outcome,
     before |-> before, text |-> text, files |-> files]

NoRun ==
    [action |-> "none", events |-> <<>>, outcome |-> Returned(<<>>),
     before |-> [d \in Dirs |-> {}], text |-> <<>>, files |-> {}]

NodejsNpmPackAction_init(artifacts_dir, scratch_dir, manifest_path) ==
    [artifacts_dir |-> artifacts_dir, manifest_path |-> manifest_path,
     scratch_dir |-> scratch_dir]

NodejsNpmInstallAction_init(artifacts_dir) == [artifacts_dir |-> artifacts_dir]

NodejsNpmScriptAction_init(working_dir, manifest_path, script_name) ==
    [working_dir |-> working_dir, manifest_path |-> manifest_path,
     script_name |-> script_name]

Init ==
    \E m \in ManifestPaths, s \in ScriptNames, prior \in SUBSET PriorFiles :
        /\ pack = NodejsNpmPackAction_init(ArtifactsDir, ScratchDir, m)
        /\ install = NodejsNpmInstallAction_init(ArtifactsDir)
        /\ script = NodejsNpmScriptAction_init(ArtifactsDir, m, s)
        /\ fs = [d \in Dirs |-> IF d = ArtifactsDir THEN prior ELSE {}]
        /\ runs = 0
        /\ last = NoRun
        /\ prev = NoRun

PackExecute ==
    /\ runs < MaxRuns
    /\ \E env \in PackEnvs :
        LET r == NodejsNpmPackAction_execute(pack, fs, env)
        IN  /\ pack' = r.self
            /\ fs' = r.fs
            /\ last' = Run("pack", r, fs, <<>>, env.files)
    /\ prev' = last
    /\ runs' = runs + 1
    /\ UNCHANGED <<install, script>>

InstallExecute ==
    /\ runs < MaxRuns
    /\ \E env \in InstallEnvs :
        LET r == NodejsNpmInstallAction_execute(install, fs, env)
        IN  /\ install' = r.self
            /\ fs' = r.fs
            /\ last' = Run("install", r, fs, <<>>, {})
    /\ prev' = last
    /\ runs' = runs + 1
    /\ UNCHANGED <<pack, script>>

ScriptExecute ==
    /\ runs < MaxRuns
    /\ \E env \in ScriptEnvs :
        LET r == NodejsNpmScriptAction_execute(script, fs, env)
        IN  /\ script' = r.self
            /\ fs' = r.fs
            /\ last' = Run("script", r, fs,
                           IF env.read.type = "None" THEN env.read.msg ELSE <<>>, {})
    /\ prev' = last
    /\ runs' = runs + 1
    /\ UNCHANGED <<pack, install>>

Next == PackExecute \/ InstallExecute \/ ScriptExecute

Spec == Init /\ [][Next]_vars

(***************************************************************************)
(* Properties                                                              *)
(***************************************************************************)
RunEvents(r) == SelectSeq(r.events, LAMBDA e : e.op = "run")

ExecutorFailed(r) ==
    \E i \in 1..Len(r.events) :
        r.events[i].op = "run" /\ r.events[i].result.type = "NpmExecutionError"

ReadOk(r) ==
    /\ r.action = "script"
    /\ r.events # <<>>
    /\ r.events[1].op = "get_text_contents"
    /\ r.events[1].result.type = "None"

\* What a manifest text declares, read off the parsed document.
IsObject(text) == json_loads(text).type = "None" /\ json_loads(text).val.t = "dict"
At(obj, k) == {i \in 1..Len(obj.members) : obj.members[i].key = k}
ScriptsOf(text) ==
    LET obj == json_loads(text).val IN obj.members[Max(At(obj, <<"scripts">>))].val
HasScripts(text) == IsObject(text) /\ At(json_loads(text).val, <<"scripts">>) # {}
HasScriptsMapping(text) == HasScripts(text) /\ ScriptsOf(text).t = "dict"
DeclaresScript(text, name) == HasScriptsMapping(text) /\ At(ScriptsOf(text), name) # {}
LacksScript(text, name) ==
    \/ IsObject(text) /\ ~HasScripts(text)
    \/ HasScriptsMapping(text) /\ At(ScriptsOf(text), name) = {}

\* C1: when the executor raises its execution error during the pack or the
\* install invocation, execute() raises ActionFailedError and its message is
\* the executor error's message, unmodified.
ThmC1 ==
    last.action \in {"pack", "install"} =>
        \A i \in 1..Len(last.events) :
            (last.events[i].op = "run" /\ last.events[i].result.type = "NpmExecutionError")
                => last.outcome = [type |-> "ActionFailedError",
                                   msg |-> last.events[i].result.msg]

WitC1 ==
    /\ prev.action = "pack" /\ last.action = "install"
    /\ ExecutorFailed(prev) /\ ExecutorFailed(last)
    /\ last.events[1].result.msg # <<>>
    /\ prev.outcome = [type |-> "ActionFailedError", msg |-> prev.events[1].result.msg]
    /\ last.outcome = [type |-> "ActionFailedError", msg |-> last.events[1].result.msg]

\* C2: when the pack invocation succeeds but the archive extraction raises an
\* I/O error, execute() raises ActionFailedError carrying that error's message;
\* the extraction error's own type never reaches the caller.
CexC2 ==
    (/\ last.action = "pack"
     /\ Len(last.events) = 2
     /\ last.events[1].result.type = "None"
     /\ last.events[2].op = "extract_tarfile"
     /\ last.events[2].result.type # "None")
        => last.outcome = [type |-> "ActionFailedError",
                           msg |-> last.events[2].result.msg]

\* C3: when the manifest parses to an object with no "scripts" key, or its
\* "scripts" mapping does not contain the requested name, execute() returns
\* normally and the executor is invoked zero times.
ThmC3 ==
    (ReadOk(last) /\ LacksScript(last.text, script.script_name))
        => (last.outcome.type = "None" /\ RunEvents(last) = <<>>)

WitC3 ==
    /\ ReadOk(last)
    /\ HasScriptsMapping(last.text)
    /\ ScriptsOf(last.text).members # <<>>
    /\ LacksScript(last.text, script.script_name)
    /\ last.outcome.type = "None"
    /\ RunEvents(last) = <<>>

\* C4: when the manifest's "scripts" mapping contains the requested name (the
\* empty name included), execute() invokes the executor exactly once, with
\* arguments ['run', name] in the working directory bound at construction,
\* and returns normally when that invocation succeeds, whatever its output.
ThmC4 ==
    (ReadOk(last) /\ DeclaresScript(last.text, script.script_name))
        => /\ Len(RunEvents(last)) = 1
           /\ RunEvents(last)[1].args = <<<<"run">>, script.script_name>>
           /\ RunEvents(last)[1].dir = script.working_dir
           /\ (RunEvents(last)[1].result.type = "None" => last.outcome.type = "None")

WitC4 ==
    /\ ReadOk(last)
    /\ script.script_name = <<>>
    /\ DeclaresScript(last.text, script.script_name)
    /\ Len(RunEvents(last)) = 1
    /\ RunEvents(last)[1].result = [type |-> "None", msg |-> <<>>]
    /\ last.outcome.type = "None"

\* C5: when the manifest text is not valid JSON, execute() raises
\* ActionFailedError whose message contains the manifest path and the parser's
\* diagnostic, and the executor is not invoked.
ThmC5 ==
    (ReadOk(last) /\ json_loads(last.text).type = "ValueError")
        => /\ last.outcome.type = "ActionFailedError"
           /\ Contains(last.outcome.msg, script.manifest_path)
           /\ Contains(last.outcome.msg, json_loads(last.text).msg)
           /\ RunEvents(last) = <<>>

WitC5 ==
    /\ ReadOk(last)
    /\ last.text # <<>>
    /\ json_loads(last.text).type = "ValueError"
    /\ last.outcome.type = "ActionFailedError"
    /\ Contains(last.outcome.msg, script.manifest_path)

\* C6: every run of NodejsNpmScriptAction.execute() ends in a normal return or
\* in ActionFailedError; no other error type crosses the action boundary.
CexC6 ==
    last.action = "script" => last.outcome.type \in {"None", "ActionFailedError"}

\* C7 as stated: after execute() runs to completion the artifacts directory
\* holds exactly the members of the archive, the archive is in the scratch
\* directory and not in the artifacts directory, and nothing was deleted.
CexC7 ==
    last.action = "pack" =>
        /\ \A d \in Dirs : last.before[d] \subseteq fs[d]
        /\ last.outcome.type = "None" =>
              /\ fs[pack.artifacts_dir] = last.files
              /\ last.events[1].result.msg \in fs[pack.scratch_dir]
              /\ last.events[1].result.msg \notin fs[pack.artifacts_dir]

\* C7 (amended): after execute() runs to completion the artifacts directory
\* holds what it held before together with exactly the members of the archive,
\* the archive is in the scratch directory and not in the artifacts directory,
\* and, on success or failure, no entry of either directory was deleted.
ThmC7 ==
    last.action = "pack" =>
        /\ \A d \in Dirs : last.before[d] \subseteq fs[d]
        /\ last.outcome.type = "None" =>
              /\ fs[pack.artifacts_dir] = last.before[pack.artifacts_dir] \cup last.files
              /\ last.events[1].result.msg \in fs[pack.scratch_dir]
              /\ last.events[1].result.msg \notin fs[pack.artifacts_dir]

WitC7 ==
    /\ last.action = "pack"
    /\ last.outcome.type = "None"
    /\ last.before[pack.artifacts_dir] # {}
    /\ last.files # {}
    /\ fs[pack.artifacts_dir] = last.before[pack.artifacts_dir] \cup last.files
    /\ last.events[1].result.msg \in fs[pack.scratch_dir]

\* C8: NodejsNpmInstallAction.execute() invokes the executor exactly once per
\* call, with ['install', '-q', '--no-audit', '--no-save', '--production'] in
\* the artifacts directory bound at construction; a failure is not retried.
ThmC8 ==
    last.action = "install" =>
        /\ Len(RunEvents(last)) = 1
        /\ RunEvents(last)[1].args =
              <<<<"install">>, <<"-q">>, <<"--no-audit">>, <<"--no-save">>,
                <<"--production">>>>
        /\ RunEvents(last)[1].dir = ArtifactsDir
        /\ ExecutorFailed(last) => last.outcome.type = "ActionFailedError"

WitC8 ==
    /\ last.action = "install"
    /\ ExecutorFailed(last)
    /\ Len(RunEvents(last)) = 1
    /\ last.outcome.type = "ActionFailedError"

\* C9: two consecutive runs of NodejsNpmInstallAction.execute() in which the
\* executor succeeds both raise nothing, and the second issues the same
\* executor invocation (arguments and working directory) as the first.
ThmC9 ==
    (/\ prev.action = "install" /\ last.action = "install"
     /\ ~ExecutorFailed(prev) /\ ~ExecutorFailed(last))
        => /\ prev.outcome.type = "None" /\ last.outcome.type = "None"
           /\ Len(RunEvents(prev)) = 1 /\ Len(RunEvents(last)) = 1
           /\ RunEvents(last)[1].args = RunEvents(prev)[1].args
           /\ RunEvents(last)[1].dir = RunEvents(prev)[1].dir

WitC9 ==
    /\ prev.action = "install" /\ last.action = "install"
    /\ ~ExecutorFailed(prev) /\ ~ExecutorFailed(last)
    /\ <<"node_modules">> \in last.before[install.artifacts_dir]
    /\ last.outcome.type = "None"

\* C10: NodejsNpmPackAction.execute() first invokes the executor, once, with
\* ['pack', '-q', 'file:' + absolute directory of the manifest] in the scratch
\* directory; if that fails, extraction is not called and the artifacts
\* directory is unchanged; otherwise extraction is called once, afterwards, on
\* join(scratch directory, returned archive name) into the artifacts directory.
ThmC10 ==
    last.action = "pack" =>
        /\ Len(last.events) >= 1
        /\ Len(RunEvents(last)) = 1
        /\ last.events[1].op = "run"
        /\ last.events[1].args =
              <<<<"pack">>, <<"-q">>,
                <<"file:">> \o abspath(dirname(pack.manifest_path))>>
        /\ isabs(Tail(last.events[1].args[3]))
        /\ last.events[1].dir = ScratchDir
        /\ last.events[1].result.type # "None" =>
              /\ Len(last.events) = 1
              /\ fs[ArtifactsDir] = last.before[ArtifactsDir]
        /\ last.events[1].result.type = "None" =>
              /\ Len(last.events) = 2
              /\ last.events[2].op = "extract_tarfile"
              /\ last.events[2].args =
                    <<joinpath(ScratchDir, last.events[1].result.msg)>>
              /\ last.events[2].dir = ArtifactsDir

WitC10 ==
    /\ last.action = "pack"
    /\ ~isabs(pack.manifest_path)
    /\ Len(last.events) = 2
    /\ last.events[1].op = "run" /\ last.events[1].result.type = "None"
    /\ last.events[2].op = "extract_tarfile"
    /\ prev.action = "pack" /\ Len(prev.events) = 1

====
